---- MODULE Spec2Model ----
(***************************************************************************)
(* Model of the personalization and resource-delivery core:                *)
(*   - the narration key-pool client   (src/elevenLabsManager.ts)          *)
(*   - the feed ranker                 (src/SmartLogic.ts)                 *)
(*   - the prefetch cache              (src/smartCache.ts)                 *)
(*   - the interaction handlers        (src/App.tsx)                       *)
(* Each asynchronous function is cut at its awaits: the code between two   *)
(* awaits runs to completion on the single JavaScript thread and is one    *)
(* action here.                                                            *)
(***************************************************************************)
EXTENDS Integers, Sequences, FiniteSets, TLC

VARIABLES
    config,        \* the persisted document settings/api_config, or Missing
    calls,         \* one record per playNarrative invocation chain (a speak() call)
    audio,         \* the Audio elements the client has created
    currentAudio,  \* module variable currentAudio: an audio id, or 0 for null
    audioListeners,\* module variable audioListeners, with the last value each received
    quiet,         \* history: TRUE from a cancel() until the next speak()
    lastOut,       \* history: how the speak() call that returned last ended
    allVideos,     \* generateVideoFeed: the corpus handed in
    watchHistory,  \* interactions.watchHistory, a list of [id, progress] (in percent)
    dislikedIds,   \* interactions.dislikedIds
    localInterests,\* SmartBrainLogic.localInterests
    feed,          \* the list generateVideoFeed returned
    ranked,        \* whether generateVideoFeed has run
    hasHistory,    \* whether interactions.watchHistory is an array (not undefined or null)
    hasDisliked,   \* whether interactions.dislikedIds is an array (not undefined or null)
    raised,        \* whether generateVideoFeed threw instead of returning
    randoms,       \* history: the values Math.random() * 10 gave to the scoring
    store,         \* the two Cache buckets: for every request URL a body, or 0 for none
    bufs,          \* one record per bufferVideoChunk / bufferImage call in progress
    started,       \* history: number of buffer calls made so far
    lastEnd,       \* history: how the buffer call that completed last ended
    resolved,      \* the URL and the result of the last getVideoSrcFromCache
    failedKeys,    \* history: the keys that returned an auth/quota status since the last save
    urls,          \* the audio elements whose object URL is created and not revoked
    sorter,        \* the optimizeKeyOrder call: its position in the loop, stats, result
    probes,        \* the positions of the keys whose quota probe is in flight
    seedCorpus,    \* initSmartBuffering: the videos handed in
    seedFired,     \* history: the buffer calls initSmartBuffering has fired, in order
    likedIds,      \* interactions.likedIds
    storedInterests, \* localStorage item smart_brain_interests
    reports        \* history: the progress reports made so far, in order

narrVars == <<config, calls, audio, currentAudio, audioListeners, quiet, lastOut,
              failedKeys, urls>>

rankVars == <<allVideos, watchHistory, dislikedIds, localInterests, feed, ranked,
              hasHistory, hasDisliked, raised, randoms>>

cacheVars == <<store, bufs, started, lastEnd, resolved>>

keyVars == <<sorter, probes>>

seedVars == <<seedCorpus, seedFired>>

appVars == <<likedIds, storedInterests, reports>>

hostVars == <<keyVars, seedVars, appVars>>

vars == <<narrVars, rankVars, cacheVars, hostVars>>

----------------------------------------------------------------------------
(* Bounds of the model *)

NumCalls == 2          \* speak() calls that may be in progress at once
NumAudio == 2          \* Audio elements that may be alive at once
NumListeners == 1      \* listeners that may subscribe

MaxCorpus == 3         \* videos in a corpus handed to the ranker
MaxHistory == 2        \* entries of a watch history

NumBufs == 2           \* buffer calls that may be in progress at once
MaxBufferCalls == 3    \* buffer calls made in one run

MaxKeys == 3           \* keys in a list handed to optimizeKeyOrder

MaxSeed == 6           \* videos in a corpus handed to initSmartBuffering

MaxIds == 3            \* videos a viewer can like or dislike
MaxReports == 4        \* progress reports of one session

(* Program constants *)

MaxRetries == 3        \* playNarrative: if (retryCount > 3)

TrendingSeed == 3      \* initSmartBuffering: slice(0, 3) of the trending videos
NewestSeed == 5        \* initSmartBuffering: slice(0, 5) of the corpus

Calls == 1..NumCalls
AudioIds == 1..NumAudio
Listeners == 1..NumListeners

\* Key pools an administrator may save.  Keys are numbered; 0 stands for "".
Pools == {<< >>, <<1, 2>>, <<1, 2, 3>>}

\* HTTP statuses of the narration endpoint; 0 stands for fetch() rejecting.
Statuses == {200, 401, 402, 429, 500, 0}

\* Characters of a narration text: a letter, a space, a stripped symbol.
Texts == {<< >>, <<" ">>, <<"*">>, <<"*", " ">>, <<" ", "*", "a", " ">>}

\* A missing settings/api_config document.
Missing == [exists |-> FALSE, keys |-> << >>, index |-> 0]

\* The null that getActiveKeyData returns.
Null == [found |-> FALSE, key |-> 0, index |-> 0, totalKeys |-> 0]

----------------------------------------------------------------------------
(* Text cleaning, playNarrative lines 150-153 *)

RECURSIVE TrimLeft(_)
TrimLeft(s) ==
    IF s = << >> THEN s
    ELSE IF Head(s) = " " THEN TrimLeft(Tail(s)) ELSE s

RECURSIVE TrimRight(_)
TrimRight(s) ==
    IF s = << >> THEN s
    ELSE IF s[Len(s)] = " " THEN TrimRight(SubSeq(s, 1, Len(s) - 1)) ELSE s

Trim(s) == TrimRight(TrimLeft(s))

\* A variant of the cleaning that strips nothing.
KeepSymbols(s) == s

StripSymbols(s) == SelectSeq(s, LAMBDA ch : ch # "*")

CleanText(s) == Trim(StripSymbols(s))

----------------------------------------------------------------------------
(* Listeners *)

\* A variant of the notification that delivers true only.
NotifyOfPlaying(lis, isPlaying) ==
    [l \in Listeners |-> IF lis[l] # "off" /\ isPlaying = "true" THEN "true" ELSE lis[l]]

\* notifyListeners(isPlaying): every subscribed listener receives the value.
NotifyListeners(lis, isPlaying) ==
    [l \in Listeners |-> IF lis[l] = "off" THEN "off" ELSE isPlaying]

\* The in-process state after stopCurrentNarrative().
StopCurrentNarrative(au, cur, lis) ==
    IF cur # 0
    THEN [audio |-> [au EXCEPT ![cur] =
                        CASE au[cur] = "starting" -> "abortedStart"
                          [] au[cur] = "playing"  -> "pausedPlay"
                          [] OTHER                -> "none"],
          cur   |-> 0,
          lis   |-> NotifyListeners(lis, "false")]
    ELSE [audio |-> au, cur |-> cur, lis |-> lis]

----------------------------------------------------------------------------
(* The persisted key pool *)

GetActiveKeyDataFallback(cfg, readOk) ==
    IF ~readOk \/ ~cfg.exists \/ Len(cfg.keys) = 0
    THEN [found |-> TRUE, key |-> 1, index |-> 0, totalKeys |-> 1]
    ELSE LET currentIndex == IF cfg.index >= Len(cfg.keys) THEN 0 ELSE cfg.index
         IN  [found |-> TRUE, key |-> cfg.keys[currentIndex + 1],
              index |-> currentIndex, totalKeys |-> Len(cfg.keys)]

\* keys[i] of a JavaScript array (indexed from 0): undefined, here 0, out of range.
KeyAt(keys, i) == IF i + 1 \in DOMAIN keys THEN keys[i + 1] ELSE 0

ResolveIndexPastEnd(currentIndex, length) ==
    IF currentIndex > length THEN 0 ELSE currentIndex

\* The index getActiveKeyData resolves, line 118.
ResolveIndex(currentIndex, length) ==
    IF currentIndex >= length THEN 0 ELSE currentIndex

\* getActiveKeyData on a snapshot of the document (readOk: the read succeeded).
GetActiveKeyData(cfg, readOk) ==
    IF ~readOk \/ ~cfg.exists THEN Null
    ELSE IF Len(cfg.keys) = 0 THEN Null
    ELSE LET currentIndex == ResolveIndex(cfg.index, Len(cfg.keys))
         IN  [found |-> TRUE, key |-> KeyAt(cfg.keys, currentIndex),
              index |-> currentIndex, totalKeys |-> Len(cfg.keys)]

\* A variant of the rotation that increments the index found in the document.
SwitchFromPersisted(cfg, oldIndex, writeOk) ==
    IF writeOk /\ cfg.exists
    THEN [cfg EXCEPT !.index = cfg.index + 1]
    ELSE cfg

SwitchToNextKeySkipping(cfg, oldIndex, writeOk) ==
    IF writeOk /\ cfg.exists
    THEN [cfg EXCEPT !.index = oldIndex + 2]
    ELSE cfg

\* switchToNextKey(oldIndex): updateDoc fails on a missing document; a failure is swallowed.
SwitchToNextKey(cfg, oldIndex, writeOk) ==
    IF writeOk /\ cfg.exists
    THEN [cfg EXCEPT !.index = oldIndex + 1]
    ELSE cfg

IsOk(status) == status >= 200 /\ status <= 299

IsAuthOrQuotaOrServer(status) == status \in {401, 429, 402, 500}

\* The statuses that rotate the pool, line 188.
IsAuthOrQuota(status) == status \in {401, 429, 402}

----------------------------------------------------------------------------
(* Call records *)

\* pc: where the call waits; retry: retryCount; index, key: keyData of the attempt;
\* history: prev, the index of the attempt before (-1: none); reqs, the narration
\* requests issued so far; writes, the index writes the store accepted so far.
IdleCall ==
    [pc |-> "idle", retry |-> 0, text |-> << >>, index |-> 0, key |-> 0,
     prev |-> -1, reqs |-> 0, writes |-> 0]

Active(c) == calls[c].pc # "idle"

RetriesExceededLate(retryCount) == retryCount > MaxRetries + 1

\* The guard against endless retries, line 142.
RetriesExceeded(retryCount) == retryCount > MaxRetries

MaxRetriesReachedSilently(c) ==
    /\ calls' = [calls EXCEPT ![c] = IdleCall]
    /\ lastOut' = "exhausted"
    /\ UNCHANGED <<audio, currentAudio, audioListeners>>

\* The retry bound is exceeded: notify false and return, lines 143-145.
MaxRetriesReached(c) ==
    /\ audioListeners' = NotifyListeners(audioListeners, "false")
    /\ calls' = [calls EXCEPT ![c] = IdleCall]
    /\ lastOut' = "exhausted"
    /\ UNCHANGED <<audio, currentAudio>>

\* playNarrative(text, retryCount) from its entry to its first await (lines 140-155),
\* for the call record cl of call c.
EnterPlayNarrative(c, cl, text, retryCount) ==
    IF RetriesExceeded(retryCount)
    THEN MaxRetriesReached(c)
    ELSE LET st == StopCurrentNarrative(audio, currentAudio, audioListeners)
         IN  /\ audio' = st.audio
             /\ currentAudio' = st.cur
             /\ audioListeners' = st.lis
             /\ IF Trim(text) = << >> \/ CleanText(text) = << >>
                THEN /\ calls' = [calls EXCEPT ![c] = IdleCall]
                     /\ lastOut' = "notext"
                ELSE /\ calls' = [calls EXCEPT ![c] =
                         [cl EXCEPT !.pc = "getKey", !.retry = retryCount, !.text = text]]
                     /\ UNCHANGED lastOut

\* The catch block of playNarrative (lines 220-223).
OnError(c) ==
    /\ audioListeners' = NotifyListeners(audioListeners, "false")
    /\ calls' = [calls EXCEPT ![c] = IdleCall]
    /\ lastOut' = "failed"

----------------------------------------------------------------------------
(* Actions of the narration client *)

\* The call slot a new speak() call takes.
FreeCall(c) == ~Active(c) /\ \A d \in Calls : d < c => Active(d)

\* A caller invokes playNarrative(text).
Speak(c, text) ==
    /\ FreeCall(c)
    /\ EnterPlayNarrative(c, IdleCall, text, 0)
    /\ quiet' = FALSE
    /\ UNCHANGED config
    /\ UNCHANGED <<rankVars, cacheVars, hostVars, failedKeys, urls>>

\* getActiveKeyData resolves; lines 155-164.
GetKey(c, readOk) ==
    /\ calls[c].pc = "getKey"
    /\ LET keyData == GetActiveKeyData(config, readOk)
       IN  IF ~keyData.found \/ keyData.key = 0
           THEN /\ audioListeners' = NotifyListeners(audioListeners, "false")
                /\ calls' = [calls EXCEPT ![c] = IdleCall]
                /\ lastOut' = "nokey"
           ELSE /\ calls' = [calls EXCEPT ![c].pc = "fetch",
                                          ![c].index = keyData.index,
                                          ![c].key = keyData.key,
                                          ![c].reqs = @ + 1]
                /\ UNCHANGED <<audioListeners, lastOut>>
    /\ UNCHANGED <<config, audio, currentAudio, quiet>>
    /\ UNCHANGED <<rankVars, cacheVars, hostVars, failedKeys, urls>>

FreeAudio == {a \in AudioIds : audio[a] = "none"}

\* Lines 198-218 once response.blob() has settled: the audio element is created,
\* assigned to currentAudio and started.
StartAudio(c) ==
    /\ FreeAudio # {}
    /\ LET a == CHOOSE x \in FreeAudio : \A y \in FreeAudio : x <= y
       IN  /\ audio' = [x \in AudioIds |->
                  IF x = a THEN "starting"
                  ELSE IF x = currentAudio /\ audio[x] = "failed" THEN "none"
                  ELSE audio[x]]
           /\ currentAudio' = a
           /\ urls' = urls \cup {a}
    /\ calls' = [calls EXCEPT ![c] = IdleCall]
    /\ lastOut' = IF calls[c].retry = 0 THEN "started" ELSE "startedOnRetry"
    /\ UNCHANGED audioListeners

\* The narration request settles with a 2xx status and response.blob() settles
\* (bodyOk: it resolves); lines 186-218.
ResponseOk(c, status, bodyOk) ==
    /\ calls[c].pc = "fetch"
    /\ status # 0 /\ IsOk(status)
    /\ IF bodyOk
       THEN StartAudio(c)
       ELSE OnError(c) /\ UNCHANGED <<audio, currentAudio, urls>>
    /\ UNCHANGED <<config, quiet>>
    /\ UNCHANGED <<rankVars, cacheVars, hostVars, failedKeys>>

\* The narration request settles with a status that rotates the pool, switchToNextKey
\* settles (writeOk: the store accepts the write) and playNarrative re-enters itself;
\* lines 186-193.
ResponseRotate(c, status, writeOk) ==
    /\ calls[c].pc = "fetch"
    /\ status # 0 /\ ~IsOk(status) /\ IsAuthOrQuota(status)
    /\ config' = SwitchToNextKey(config, calls[c].index, writeOk)
    /\ EnterPlayNarrative(c,
           [calls[c] EXCEPT !.prev = calls[c].index,
                            !.writes = IF writeOk /\ config.exists THEN @ + 1 ELSE @],
           calls[c].text, calls[c].retry + 1)
    /\ failedKeys' = failedKeys \cup {calls[c].key}
    /\ UNCHANGED <<quiet, urls>>
    /\ UNCHANGED <<rankVars, cacheVars, hostVars>>

\* The narration request fails: fetch() rejects (status 0) or the status is any other
\* failure; lines 186, 195, 220-223.
ResponseFail(c, status) ==
    /\ calls[c].pc = "fetch"
    /\ status = 0 \/ (~IsOk(status) /\ ~IsAuthOrQuota(status))
    /\ OnError(c)
    /\ UNCHANGED <<config, audio, currentAudio, quiet>>
    /\ UNCHANGED <<rankVars, cacheVars, hostVars, failedKeys, urls>>

\* The play event of an audio: onplay.
PlayStarts(a) ==
    /\ audio[a] = "starting"
    /\ audio' = [audio EXCEPT ![a] = "playing"]
    /\ audioListeners' = NotifyListeners(audioListeners, "true")
    /\ UNCHANGED <<config, calls, currentAudio, quiet, lastOut>>
    /\ UNCHANGED <<rankVars, cacheVars, hostVars, failedKeys, urls>>

\* play() rejects: the catch of line 205.
PlayRejects(a) ==
    /\ audio[a] = "starting"
    /\ audio' = [audio EXCEPT ![a] = IF currentAudio = a THEN "failed" ELSE "none"]
    /\ audioListeners' = NotifyListeners(audioListeners, "false")
    /\ UNCHANGED <<config, calls, currentAudio, quiet, lastOut>>
    /\ UNCHANGED <<rankVars, cacheVars, hostVars, failedKeys, urls>>

\* The audio plays to its end: onended, which also revokes the object URL (line 212).
Ended(a) ==
    /\ audio[a] = "playing"
    /\ audio' = [audio EXCEPT ![a] = "none"]
    /\ audioListeners' = NotifyListeners(audioListeners, "false")
    /\ currentAudio' = 0
    /\ urls' = urls \ {a}
    /\ UNCHANGED <<config, calls, quiet, lastOut>>
    /\ UNCHANGED <<rankVars, cacheVars, hostVars, failedKeys>>

\* The events queued by pause() in stopCurrentNarrative: the pause event (onpause) and,
\* for an audio whose play() was pending, the rejection of play().
PauseEvent(a) ==
    /\ audio[a] \in {"abortedStart", "pausedPlay"}
    /\ audio' = [audio EXCEPT ![a] = "none"]
    /\ audioListeners' =
          IF audio[a] = "abortedStart" \/ currentAudio # 0
          THEN NotifyListeners(audioListeners, "false")
          ELSE audioListeners
    /\ UNCHANGED <<config, calls, currentAudio, quiet, lastOut>>
    /\ UNCHANGED <<rankVars, cacheVars, hostVars, failedKeys, urls>>

\* A caller invokes stopCurrentNarrative().
Cancel ==
    /\ LET st == StopCurrentNarrative(audio, currentAudio, audioListeners)
       IN  /\ audio' = st.audio
           /\ currentAudio' = st.cur
           /\ audioListeners' = st.lis
    /\ quiet' = TRUE
    /\ UNCHANGED <<config, calls, lastOut>>
    /\ UNCHANGED <<rankVars, cacheVars, hostVars, failedKeys, urls>>

\* subscribeToAudioState(listener) and the function it returns.
Subscribe(l) ==
    /\ audioListeners[l] = "off"
    /\ audioListeners' = [audioListeners EXCEPT ![l] = "none"]
    /\ UNCHANGED <<config, calls, audio, currentAudio, quiet, lastOut>>
    /\ UNCHANGED <<rankVars, cacheVars, hostVars, failedKeys, urls>>

Unsubscribe(l) ==
    /\ audioListeners[l] # "off"
    /\ audioListeners' = [audioListeners EXCEPT ![l] = "off"]
    /\ UNCHANGED <<config, calls, audio, currentAudio, quiet, lastOut>>
    /\ UNCHANGED <<rankVars, cacheVars, hostVars, failedKeys, urls>>

\* The administrator saves a key list: handleSave.
AdminSave(pool) ==
    /\ config' = [exists |-> TRUE, keys |-> pool, index |-> 0]
    /\ failedKeys' = {}
    /\ UNCHANGED <<calls, audio, currentAudio, audioListeners, quiet, lastOut, urls>>
    /\ UNCHANGED <<rankVars, cacheVars, hostVars>>

----------------------------------------------------------------------------

----------------------------------------------------------------------------
(* The feed ranker: SmartBrainLogic.generateVideoFeed *)

\* Videos a corpus is made of; two of them share an id.
VideoPool ==
    { [id |-> 1, category |-> "a", is_trending |-> TRUE],
      [id |-> 1, category |-> "b", is_trending |-> FALSE],
      [id |-> 2, category |-> "a", is_trending |-> FALSE],
      [id |-> 2, category |-> "b", is_trending |-> TRUE] }

VideoIds == {v.id : v \in VideoPool}

\* Progress values of a history entry, in percent: at the threshold and above it.
ProgressValues == {80, 81}

\* Values of Math.random() * 10.
Draws == {0, 5, 9}

SeqsUpTo(S, n) == UNION {[1..k -> S] : k \in 0..n}

\* Array.prototype.filter.
Filter(list, Keep(_)) == SelectSeq(list, Keep)

\* A sort with the comparator () => 0.5 - Math.random() may leave a list in any order.
\* An order is given as a rank r for every position: the list comes back by rising rank.
Orders(n) == {r \in [1..n -> 1..n] : \A i, j \in 1..n : i # j => r[i] # r[j]}

RepeatedFirst(list, r) == [k \in 1..Len(list) |-> list[1]]

Shuffled(list, r) ==
    [k \in 1..Len(list) |->
        list[CHOOSE i \in 1..Len(list) :
                Cardinality({j \in 1..Len(list) : r[j] < r[i]}) = k - 1]]

\* Array.prototype.sort with (a, b) => b.score - a.score: stable, highest score first.
RECURSIVE InsertByScore(_, _)
InsertByScore(sorted, x) ==
    IF sorted = << >> THEN <<x>>
    ELSE IF Head(sorted).score >= x.score
         THEN <<Head(sorted)>> \o InsertByScore(Tail(sorted), x)
         ELSE <<x>> \o sorted

Unsorted(list) == list

RECURSIVE SortByScore(_)
SortByScore(list) ==
    IF list = << >> THEN << >>
    ELSE InsertByScore(SortByScore(SubSeq(list, 1, Len(list) - 1)), list[Len(list)])

WatchedIdsFromThreshold(history) ==
    {history[i].id : i \in {j \in DOMAIN history : history[j].progress >= 80}}

\* Lines 45-49: the ids with a history entry above 80 percent.
WatchedIds(history) == {history[i].id : i \in {j \in DOMAIN history : history[j].progress > 80}}

\* A variant of the score whose boosts are smaller than the spread of the random draw.
ScoreWithSmallBoosts(video, interests, draw) ==
    draw + (IF \E i \in DOMAIN interests : interests[i] = video.category THEN 5 ELSE 0)
         + (IF video.is_trending THEN 2 ELSE 0)

\* Lines 62-76: the score of the i-th unwatched video, with its random draw.
Score(video, interests, draw) ==
    draw + (IF \E i \in DOMAIN interests : interests[i] = video.category THEN 50 ELSE 0)
         + (IF video.is_trending THEN 20 ELSE 0)

NoDedup(list) == list

\* Lines 96-101: the first video of every id, in order.
RECURSIVE Dedup(_)
Dedup(list) ==
    IF list = << >> THEN << >>
    ELSE LET front == Dedup(SubSeq(list, 1, Len(list) - 1))
             last  == list[Len(list)]
         IN  IF \E i \in DOMAIN front : front[i].id = last.id
             THEN front
             ELSE Append(front, last)

\* Line 53: the videos neither watched nor disliked.
UnwatchedPool(videos, history, disliked) ==
    Filter(videos, LAMBDA v : v.id \notin WatchedIds(history) /\ v.id \notin disliked)

NoSafetyNet(finalFeed, videos, r) == finalFeed

\* Lines 89-93: the safety net.  An empty feed over a non-empty corpus is replaced by
\* the whole corpus, shuffled.
ForceRecycleAll(finalFeed, videos, r) ==
    IF Len(finalFeed) = 0 /\ Len(videos) > 0
    THEN Shuffled(videos, r)
    ELSE finalFeed

\* generateVideoFeed(videos, interactions) of an instance with the given interests, for
\* the random draws (one per unwatched video) and the order r a shuffle leaves.
GenerateVideoFeed(videos, history, disliked, interests, draws, r) ==
    IF Len(videos) = 0 THEN << >>
    ELSE
    LET watchedIds    == WatchedIds(history)
        unwatchedPool == UnwatchedPool(videos, history, disliked)
        watchedPool   == Filter(videos, LAMBDA v : v.id \in watchedIds /\ v.id \notin disliked)
        scored        == [i \in DOMAIN unwatchedPool |->
                             [video |-> unwatchedPool[i],
                              score |-> Score(unwatchedPool[i], interests, draws[i])]]
        sorted        == SortByScore(scored)
        firstFeed     == IF Len(unwatchedPool) > 0
                         THEN [i \in DOMAIN sorted |-> sorted[i].video]
                         ELSE Shuffled(watchedPool, r)
    IN  Dedup(ForceRecycleAll(firstFeed, videos, r))

\* Lines 53, 60: whether the corpus holds a video neither watched nor disliked.
HasUnwatched(videos, history, disliked) ==
    \E i \in DOMAIN videos :
        videos[i].id \notin WatchedIds(history) /\ videos[i].id \notin disliked

\* No call of Math.random().
NoDraws == [i \in 1..MaxCorpus |-> 0]

\* Lines 41, 46: past the check of the corpus, interactions.watchHistory.filter throws
\* a TypeError when watchHistory is undefined or null.
Raises(videos, withHistory) == Len(videos) > 0 /\ ~withHistory

\* Line 50: new Set(undefined) and new Set(null) are empty sets.
DislikedSet(withDisliked, ids) == IF withDisliked THEN ids ELSE {}

\* The host hands a corpus and an interaction snapshot to the ranker.  A snapshot read
\* back from storage may lack a field.
RankerInputs ==
    /\ allVideos \in SeqsUpTo(VideoPool, MaxCorpus)
    /\ hasHistory \in BOOLEAN
    /\ hasDisliked \in BOOLEAN
    /\ watchHistory \in IF hasHistory
                        THEN SeqsUpTo([id : VideoIds, progress : ProgressValues], MaxHistory)
                        ELSE {<< >>}
    /\ dislikedIds \in IF hasDisliked THEN SUBSET VideoIds ELSE {{}}
    /\ raised = FALSE
    /\ randoms = NoDraws
    /\ localInterests \in {<< >>, <<"a">>}
    /\ feed = << >>
    /\ ranked = FALSE

\* A variant of the shuffle that sorts the corpus itself in place of a copy.
ShuffledInPlace(videos, r) == Shuffled(videos, r)

\* The corpus after the call: the pools are made by filter and the shuffles sort the
\* copies [...watchedPool] and [...allVideos], lines 53-54, 85, 91.
CorpusAfter(videos, r) == videos

\* One call of generateVideoFeed.
Rank(draws, r) ==
    /\ ~ranked
    /\ raised' = Raises(allVideos, hasHistory)
    /\ randoms' = draws
    /\ feed' = IF Raises(allVideos, hasHistory)
               THEN << >>
               ELSE GenerateVideoFeed(allVideos, watchHistory,
                                      DislikedSet(hasDisliked, dislikedIds),
                                      localInterests, draws, r)
    /\ ranked' = TRUE
    /\ allVideos' = CorpusAfter(allVideos, r)
    /\ UNCHANGED <<watchHistory, dislikedIds, localInterests, hasHistory, hasDisliked>>
    /\ UNCHANGED <<narrVars, cacheVars, hostVars>>

----------------------------------------------------------------------------
(* The prefetch cache: src/smartCache.ts *)

Bufs == 1..NumBufs

\* The buckets CACHE_NAME and IMAGE_CACHE_NAME.
Buckets == {"video", "image"}

\* The URL of the document, against which a relative URL is resolved.
AppBase == <<"https:", "//app">>

\* URLs a caller may pass, cut into their first characters and the rest: "" (or a
\* missing URL, falsy as well), an absolute https URL, the same resource as a relative
\* URL, a relative URL whose first characters are "http", and a URL of another scheme.
Urls ==
    { << >>,
      <<"https:", "//app", "/v.mp4">>,
      <<"/v.mp4">>,
      <<"httpdocs", "/w.mp4">>,
      <<"blob:", "x">> }

\* !url
Falsy(url) == url = << >>

\* url.startsWith('http')
StartsWithHttp(url) == url # << >> /\ url[1] \in {"http:", "https:", "httpdocs"}

\* The URL of the Request that fetch(url), cache.match(url) and cache.put(url, _) build:
\* a URL without a scheme is resolved against the document.
RequestUrl(url) ==
    IF url # << >> /\ url[1] \in {"http:", "https:", "blob:"} THEN url ELSE AppBase \o url

Keys == {RequestUrl(u) : u \in Urls}

\* Bodies a server may send for a URL; 0 is no entry.
Bodies == {1, 2}

\* Statuses of a fetch; 0 stands for fetch() rejecting.
FetchStatuses == {200, 206, 404, 0}

CacheMiss(cache, url) == 0

\* cache.match(url): the entry stored for the request URL, or 0 for undefined.
CacheMatch(cache, url) == cache[RequestUrl(url)]

\* cache.put(url, response)
CachePutEntry(cache, url, body) == [cache EXCEPT ![RequestUrl(url)] = body]

\* Line 29: response.ok || response.status === 206; line 59: response.ok.
Storable(status) == status >= 200 /\ status <= 299

\* Line 60: cache.put rejects a response of status 206; line 31 makes bufferVideoChunk
\* store a fresh response of status 200.
PutAccepts(bucket, status) == bucket = "video" \/ status # 206

IdleBuf == [pc |-> "idle", bucket |-> "video", url |-> << >>, status |-> 0, body |-> 0]

Rethrown(b) == [bufs EXCEPT ![b] = [IdleBuf EXCEPT !.pc = "raised"]]

\* Lines 43-45, 62: the catch blocks swallow the error and the call completes.
Swallowed(b) == [bufs EXCEPT ![b] = IdleBuf]

\* The slot a new buffer call runs in.
FreeBuf(b) == bufs[b].pc = "idle" /\ \A c \in Bufs : c < b => bufs[c].pc # "idle"

\* bufferVideoChunk(url) and bufferImage(url) up to the first await (lines 13-16, 52-54).
BufferCall(b, bucket, url) ==
    /\ started < MaxBufferCalls
    /\ FreeBuf(b)
    /\ started' = started + 1
    /\ IF Falsy(url) \/ ~StartsWithHttp(url)
       THEN /\ lastEnd' = "skipped"
            /\ UNCHANGED bufs
       ELSE /\ bufs' = [bufs EXCEPT ![b] = [IdleBuf EXCEPT !.pc = "open",
                                                           !.bucket = bucket,
                                                           !.url = url]]
            /\ UNCHANGED lastEnd
    /\ UNCHANGED <<store, resolved>>
    /\ UNCHANGED <<narrVars, rankVars, hostVars>>

BufferVideoChunk(b, url) == BufferCall(b, "video", url)

BufferImage(b, url) == BufferCall(b, "image", url)

\* caches.open settles (lines 16, 54); the call goes on to cache.match.
CacheOpened(b, ok) ==
    /\ bufs[b].pc = "open"
    /\ IF ok
       THEN bufs' = [bufs EXCEPT ![b].pc = "match"] /\ UNCHANGED lastEnd
       ELSE bufs' = Swallowed(b) /\ lastEnd' = "swallowed"
    /\ UNCHANGED <<store, started, resolved>>
    /\ UNCHANGED <<narrVars, rankVars, hostVars>>

\* cache.match settles (lines 17-27, 55-58): a hit returns, a miss calls fetch.
CacheMatched(b, ok) ==
    /\ bufs[b].pc = "match"
    /\ IF ~ok
       THEN bufs' = Swallowed(b) /\ lastEnd' = "swallowed"
       ELSE IF CacheMatch(store[bufs[b].bucket], bufs[b].url) # 0
            THEN bufs' = [bufs EXCEPT ![b] = IdleBuf] /\ lastEnd' = "cached"
            ELSE bufs' = [bufs EXCEPT ![b].pc = "fetch"] /\ UNCHANGED lastEnd
    /\ UNCHANGED <<store, started, resolved>>
    /\ UNCHANGED <<narrVars, rankVars, hostVars>>

\* fetch settles and, for a video, response.blob() (lines 29-41, 59-60); the call goes
\* on to cache.put, or completes without one.
Fetched(b, status, body, blobOk) ==
    /\ bufs[b].pc = "fetch"
    /\ IF status = 0 \/ ~blobOk \/ (Storable(status) /\ ~PutAccepts(bufs[b].bucket, status))
       THEN bufs' = Swallowed(b) /\ lastEnd' = "swallowed"
       ELSE IF Storable(status)
            THEN /\ bufs' = [bufs EXCEPT ![b].pc = "put", ![b].status = status,
                                         ![b].body = body]
                 /\ UNCHANGED lastEnd
            ELSE bufs' = [bufs EXCEPT ![b] = IdleBuf] /\ lastEnd' = "refused"
    /\ UNCHANGED <<store, started, resolved>>
    /\ UNCHANGED <<narrVars, rankVars, hostVars>>

\* cache.put settles (lines 41, 60).
CachePut(b, ok) ==
    /\ bufs[b].pc = "put"
    /\ IF ok
       THEN /\ store' = [store EXCEPT ![bufs[b].bucket] =
                            CachePutEntry(store[bufs[b].bucket], bufs[b].url, bufs[b].body)]
            /\ bufs' = [bufs EXCEPT ![b] = IdleBuf]
            /\ lastEnd' = "stored"
       ELSE /\ bufs' = Swallowed(b)
            /\ lastEnd' = "swallowed"
            /\ UNCHANGED store
    /\ UNCHANGED <<started, resolved>>
    /\ UNCHANGED <<narrVars, rankVars, hostVars>>

\* getVideoSrcFromCache(url), lines 68-82: the handle of the entry, or 0 for null.  Of
\* its awaits only cache.match reads the bucket; readOk tells whether all succeed.
GetVideoSrcFromCache(url, readOk) ==
    /\ resolved' = [url |-> url,
                    handle |-> IF Falsy(url) \/ ~readOk
                               THEN 0
                               ELSE CacheMatch(store["video"], url)]
    /\ UNCHANGED <<store, bufs, started, lastEnd>>
    /\ UNCHANGED <<narrVars, rankVars, hostVars>>

----------------------------------------------------------------------------
(* Quota probes and key ordering: checkKeyUsage and optimizeKeyOrder *)

\* Keys handed to optimizeKeyOrder; key 4 stands for a string shorter than 10 characters.
ProbeKeys == {1, 2, 4}

\* key.length, line 77.
KeyLength(key) == IF key = 4 THEN 7 ELSE 32

\* The key lists handed to optimizeKeyOrder.
KeyLists == SeqsUpTo(ProbeKeys, MaxKeys)

\* What the subscription endpoint does with one probe: fetch rejects, the status is not
\* a success, the body is not JSON, or the body is an object with the two counters.  A
\* counter that is absent reads as 0 (character_count || 0, lines 54-55).
Replies ==
    {[kind |-> k, used |-> 0, limit |-> 0] : k \in {"reject", "notok", "badjson"}}
    \cup {[kind |-> "data", used |-> q[1], limit |-> q[2]] :
             q \in {<<0, 0>>, <<0, 100>>, <<0, 101>>, <<50, 300>>, <<200, 100>>}}

\* The stat of a failed probe, lines 50 and 66.
ErrorStat(key) ==
    [key |-> key, used |-> 0, limit |-> 0, remaining |-> 0 - 1, status |-> "error"]

\* A variant of the status test that counts a remaining quota of exactly 100 as usable.
StatusFromHundred(remaining) == IF remaining >= 100 THEN "active" ELSE "empty"

\* remaining > 100 ? 'active' : 'empty', line 63.
StatusOf(remaining) == IF remaining > 100 THEN "active" ELSE "empty"

\* checkKeyUsage(apiKey), lines 43-68: both awaits are inside the try block, so every
\* reply ends in a returned stat.
CheckKeyUsage(key, reply) ==
    IF reply.kind # "data"
    THEN ErrorStat(key)
    ELSE [key |-> key, used |-> reply.used, limit |-> reply.limit,
          remaining |-> reply.limit - reply.used,
          status |-> StatusOf(reply.limit - reply.used)]

\* The comparator of stats.sort, lines 85-93.
Compare(a, b) ==
    IF a.status = "active" /\ b.status # "active" THEN 0 - 1
    ELSE IF a.status # "active" /\ b.status = "active" THEN 1
    ELSE IF a.status = "active" /\ b.status = "active" THEN b.remaining - a.remaining
    ELSE 0

\* Array.prototype.sort is stable: x goes behind every element that does not follow it.
RECURSIVE InsertStat(_, _)
InsertStat(sorted, x) ==
    IF sorted = << >> THEN <<x>>
    ELSE IF Compare(Head(sorted), x) <= 0
         THEN <<Head(sorted)>> \o InsertStat(Tail(sorted), x)
         ELSE <<x>> \o sorted

\* A variant of the sort that keeps the probe order.
ProbeOrder(stats) == stats

RECURSIVE SortStats(_)
SortStats(stats) ==
    IF stats = << >> THEN << >>
    ELSE InsertStat(SortStats(SubSeq(stats, 1, Len(stats) - 1)), stats[Len(stats)])

\* stats.map(s => s.key), line 95.
KeysOf(stats) == [i \in 1..Len(stats) |-> stats[i].key]

\* The positions at or after from whose key passes the length test of line 77.
Probed(keys, from) == {j \in from..Len(keys) : KeyLength(keys[j]) >= 10}

\* A variant of the loop that starts every remaining probe at once.
ProbesAtOnce(keys, from) == Probed(keys, from)

\* The loop of lines 76-80 running from position from up to its next await: the probe
\* it issues, or none when the list is exhausted.
NextProbes(keys, from) ==
    IF Probed(keys, from) = {} THEN {}
    ELSE {CHOOSE j \in Probed(keys, from) : \A k \in Probed(keys, from) : j <= k}

\* A variant of optimizeKeyOrder that saves the new order as the persisted key list.
PersistedOrder(cfg, order) == [exists |-> TRUE, keys |-> order, index |-> 0]

\* optimizeKeyOrder performs no write of settings/api_config, lines 71-96.
PersistedAfterReorder(cfg, order) == cfg

\* No optimizeKeyOrder call in progress.
IdleSorter ==
    [pc |-> "idle", keys |-> << >>, stats |-> << >>, probed |-> << >>, result |-> << >>]

\* The loop has come to position from with the stats collected so far: it awaits the
\* next probe, or sorts and returns (lines 84-95).
RunLoop(keys, from, stats, probed, inFlight) ==
    LET next == NextProbes(keys, from)
        done == next = {} /\ inFlight = {}
    IN  /\ probes' = inFlight \cup next
        /\ sorter' = [pc |-> IF done THEN "done" ELSE "probing",
                      keys |-> keys,
                      stats |-> IF done THEN SortStats(stats) ELSE stats,
                      probed |-> probed,
                      result |-> IF done THEN KeysOf(SortStats(stats)) ELSE << >>]
        /\ config' = IF done
                     THEN PersistedAfterReorder(config, KeysOf(SortStats(stats)))
                     ELSE config

\* optimizeKeyOrder(keys) up to its first await, lines 71-78.
OptimizeKeyOrder(keys) ==
    /\ sorter.pc \in {"idle", "done"}
    /\ IF keys = << >>
       THEN /\ sorter' = [IdleSorter EXCEPT !.pc = "done"]
            /\ UNCHANGED <<probes, config>>
       ELSE RunLoop(keys, 1, << >>, << >>, {})
    /\ UNCHANGED <<calls, audio, currentAudio, audioListeners, quiet, lastOut, failedKeys, urls>>
    /\ UNCHANGED <<rankVars, cacheVars, seedVars, appVars>>

\* The probe of position j returns: its stat is pushed and the loop goes on, lines 78-80.
ProbeReturns(j, reply) ==
    /\ sorter.pc = "probing"
    /\ j \in probes
    /\ RunLoop(sorter.keys, j + 1,
               Append(sorter.stats, CheckKeyUsage(sorter.keys[j], reply)),
               Append(sorter.probed, [pos |-> j, reply |-> reply,
                                      stat |-> CheckKeyUsage(sorter.keys[j], reply)]),
               probes \ {j})
    /\ UNCHANGED <<calls, audio, currentAudio, audioListeners, quiet, lastOut, failedKeys, urls>>
    /\ UNCHANGED <<rankVars, cacheVars, seedVars, appVars>>

----------------------------------------------------------------------------
(* The initial buffering: initSmartBuffering *)

\* Video objects of a corpus: ref tells the objects apart, as JavaScript does.  Objects 1
\* and 2 are two documents carrying the same id; object 3 has no poster.
SeedPool ==
    {[ref |-> 1, id |-> 1, is_trending |-> FALSE,
      video_url |-> <<"https:", "//app", "/v.mp4">>, poster_url |-> <<"https:", "//app", "/p.jpg">>],
     [ref |-> 2, id |-> 1, is_trending |-> TRUE,
      video_url |-> <<"https:", "//app", "/v.mp4">>, poster_url |-> <<"https:", "//app", "/p.jpg">>],
     [ref |-> 3, id |-> 2, is_trending |-> TRUE,
      video_url |-> <<"https:", "//app", "/w.mp4">>, poster_url |-> << >>]}

\* The corpora handed to initSmartBuffering.
SeedCorpora == SeqsUpTo(SeedPool, MaxSeed)

\* list.slice(0, n)
Slice(list, n) == SubSeq(list, 1, IF Len(list) < n THEN Len(list) ELSE n)

\* Array.from(new Set(list)): a Set of objects keeps the first occurrence of each object.
RECURSIVE UniqueObjects(_)
UniqueObjects(list) ==
    IF list = << >> THEN << >>
    ELSE LET rest == UniqueObjects(SubSeq(list, 1, Len(list) - 1))
             last == list[Len(list)]
         IN  IF \E n \in 1..Len(rest) : rest[n].ref = last.ref
             THEN rest
             ELSE Append(rest, last)

\* The queue of lines 88-91.
SeedQueue(videos) ==
    UniqueObjects(Slice(Filter(videos, LAMBDA v : v.is_trending), TrendingSeed)
                  \o Slice(videos, NewestSeed))

\* The buffer calls made for one video of the queue, lines 95-100.
FiredFor(video) ==
    (IF Falsy(video.video_url) THEN << >>
     ELSE <<[fn |-> "bufferVideoChunk", url |-> video.video_url, id |-> video.id]>>)
    \o (IF Falsy(video.poster_url) THEN << >>
        ELSE <<[fn |-> "bufferImage", url |-> video.poster_url, id |-> video.id]>>)

\* queue.forEach, lines 94-101.
RECURSIVE FireAll(_)
FireAll(queue) ==
    IF queue = << >> THEN << >> ELSE FiredFor(Head(queue)) \o FireAll(Tail(queue))

\* initSmartBuffering(videos), lines 85-102.  The calls it fires are recorded in order;
\* none is awaited.
InitSmartBuffering(videos) ==
    /\ seedCorpus' = videos
    /\ seedFired' = IF videos = << >> THEN << >> ELSE FireAll(SeedQueue(videos))
    /\ UNCHANGED <<narrVars, rankVars, cacheVars, keyVars, appVars>>

----------------------------------------------------------------------------
(* The interaction handlers of App.tsx and the interest profile of SmartLogic.ts *)

\* Ids of the videos a viewer can like, dislike or restore.
AppIds == 1..MaxIds

\* The argument of saveInterest: a category, or the empty string.
Categories == {"", "a", "b", "c"}

\* The interests field of the remote profile; NoRemote when the document is missing,
\* cannot be read or has no interests array.
NoRemote == <<"none">>

RemoteProfiles == {NoRemote, << >>, <<"a">>, <<"c", "c">>, <<"b", "a">>}

\* A variant of the like that leaves the disliked ids as they are.
DislikedKept(disliked, id) == disliked

\* p.dislikedIds.filter(x => x !== id), line 268.
DislikedAfterLike(disliked, id) == disliked \ {id}

\* handleLikeToggle(id), lines 262-270.
HandleLikeToggle(id) ==
    /\ IF id \in likedIds
       THEN /\ likedIds' = likedIds \ {id}
            /\ UNCHANGED dislikedIds
       ELSE /\ likedIds' = likedIds \cup {id}
            /\ dislikedIds' = DislikedAfterLike(dislikedIds, id)
    /\ UNCHANGED <<allVideos, watchHistory, localInterests, feed, ranked,
                   hasHistory, hasDisliked, raised, randoms>>
    /\ UNCHANGED <<narrVars, cacheVars, keyVars, seedVars, storedInterests, reports>>

\* handleDislike(id), lines 272-281.
HandleDislike(id) ==
    /\ dislikedIds' = dislikedIds \cup {id}
    /\ likedIds' = likedIds \ {id}
    /\ UNCHANGED <<allVideos, watchHistory, localInterests, feed, ranked,
                   hasHistory, hasDisliked, raised, randoms>>
    /\ UNCHANGED <<narrVars, cacheVars, keyVars, seedVars, storedInterests, reports>>

\* onRestore(id), lines 438-444.
OnRestore(id) ==
    /\ dislikedIds' = dislikedIds \ {id}
    /\ UNCHANGED <<allVideos, watchHistory, localInterests, feed, ranked,
                   hasHistory, hasDisliked, raised, randoms>>
    /\ UNCHANGED <<narrVars, cacheVars, keyVars, seedVars, appVars>>

\* A variant of the report that keeps the earlier entries of the id.
HistoryAppended(history, id, progress) ==
    Append(history, [id |-> id, progress |-> progress])

\* [...p.watchHistory.filter(h => h.id !== id), { id, progress }], lines 557-558 and
\* 600-601.
HistoryAfterProgress(history, id, progress) ==
    Append(Filter(history, LAMBDA h : h.id # id), [id |-> id, progress |-> progress])

\* onProgress(id, progress) of the shorts player and onProgress(p) of the long player
\* with id = selectedLong.video.id, lines 555-560 and 597-603.
OnProgress(id, progress) ==
    /\ Len(reports) < MaxReports
    /\ watchHistory' = HistoryAfterProgress(watchHistory, id, progress)
    /\ reports' = Append(reports, [id |-> id, progress |-> progress])
    /\ UNCHANGED <<allVideos, dislikedIds, localInterests, feed, ranked,
                   hasHistory, hasDisliked, raised, randoms>>
    /\ UNCHANGED <<narrVars, cacheVars, keyVars, seedVars, likedIds, storedInterests>>

\* this.localInterests.includes(interest)
Includes(list, x) == \E n \in 1..Len(list) : list[n] = x

\* Array.from(new Set(list)): the first occurrence of every string.
RECURSIVE UniqueStrings(_)
UniqueStrings(list) ==
    IF list = << >> THEN << >>
    ELSE LET rest == UniqueStrings(SubSeq(list, 1, Len(list) - 1))
         IN  IF Includes(rest, list[Len(list)]) THEN rest ELSE Append(rest, list[Len(list)])

\* A variant of the merge that takes the remote interests in place of the local ones.
RemoteInterests(local, remote) == UniqueStrings(remote)

\* new Set([...this.localInterests, ...data.interests]), SmartLogic.ts lines 138-139.
MergeInterests(local, remote) == UniqueStrings(local \o remote)

\* localStorage.setItem('smart_brain_interests', ...), which may throw.
SetItem(stored, value, storeOk) == IF storeOk THEN value ELSE stored

\* saveInterest(interest), SmartLogic.ts lines 161-176, up to its first await; what
\* follows writes the remote profile only.
SaveInterest(interest, storeOk) ==
    /\ IF interest = "" \/ Includes(localInterests, interest)
       THEN UNCHANGED <<localInterests, storedInterests>>
       ELSE /\ localInterests' = Append(localInterests, interest)
            /\ storedInterests' = SetItem(storedInterests, Append(localInterests, interest), storeOk)
    /\ UNCHANGED <<allVideos, watchHistory, dislikedIds, feed, ranked,
                   hasHistory, hasDisliked, raised, randoms>>
    /\ UNCHANGED <<narrVars, cacheVars, keyVars, seedVars, likedIds, reports>>

\* getUserProfile(uid), SmartLogic.ts lines 130-146, from the return of getDoc on: the
\* merge reads this.localInterests after the await.
GetUserProfile(remote, storeOk) ==
    /\ IF remote = NoRemote
       THEN UNCHANGED <<localInterests, storedInterests>>
       ELSE /\ localInterests' = MergeInterests(localInterests, remote)
            /\ storedInterests' = SetItem(storedInterests, MergeInterests(localInterests, remote), storeOk)
    /\ UNCHANGED <<allVideos, watchHistory, dislikedIds, feed, ranked,
                   hasHistory, hasDisliked, raised, randoms>>
    /\ UNCHANGED <<narrVars, cacheVars, keyVars, seedVars, likedIds, reports>>

\* Both buckets empty and no call made.
CacheIdle ==
    /\ store = [c \in Buckets |-> [k \in Keys |-> 0]]
    /\ bufs = [b \in Bufs |-> IdleBuf]
    /\ started = 0
    /\ lastEnd = "none"
    /\ resolved = [url |-> << >>, handle |-> 0]

InitNarration ==
    /\ config \in {Missing} \cup {[exists |-> TRUE, keys |-> p, index |-> 0] : p \in Pools}
    /\ calls = [c \in Calls |-> IdleCall]
    /\ audio = [a \in AudioIds |-> "none"]
    /\ currentAudio = 0
    /\ audioListeners = [l \in Listeners |-> "off"]
    /\ quiet = FALSE
    /\ lastOut = "none"
    /\ failedKeys = {}
    /\ urls = {}

\* The ranker before any call, over an empty corpus.
RankerIdle ==
    /\ allVideos = << >>
    /\ watchHistory = << >>
    /\ dislikedIds = {}
    /\ localInterests = << >>
    /\ feed = << >>
    /\ ranked = FALSE
    /\ hasHistory = TRUE
    /\ hasDisliked = TRUE
    /\ raised = FALSE
    /\ randoms = NoDraws

\* No call of optimizeKeyOrder or initSmartBuffering made, no interaction recorded.
HostIdle ==
    /\ sorter = IdleSorter
    /\ probes = {}
    /\ seedCorpus = << >>
    /\ seedFired = << >>
    /\ likedIds = {}
    /\ storedInterests = << >>
    /\ reports = << >>

Init == InitNarration /\ RankerIdle /\ CacheIdle /\ HostIdle

\* An attempt of a call runs up to a final outcome.
Attempt ==
    \/ \E c \in Calls, readOk \in BOOLEAN : GetKey(c, readOk)
    \/ \E c \in Calls, status \in Statuses, bodyOk \in BOOLEAN : ResponseOk(c, status, bodyOk)
    \/ \E c \in Calls, status \in Statuses : ResponseFail(c, status)

\* The events of the audio elements.
AudioEvent ==
    \/ \E a \in AudioIds : PlayStarts(a)
    \/ \E a \in AudioIds : PlayRejects(a)
    \/ \E a \in AudioIds : Ended(a)
    \/ \E a \in AudioIds : PauseEvent(a)

\* speak() invoked while no other speak() call is in progress.
SpeakAlone(c, text) ==
    /\ \A d \in Calls : ~Active(d)
    /\ Speak(c, text)

\* One speak() call at a time, in every environment: the provider answers with any
\* status, listeners come and go and the administrator saves key lists.
Next ==
    \/ \E c \in Calls, text \in Texts : SpeakAlone(c, text)
    \/ Attempt
    \/ \E c \in Calls, status \in Statuses, writeOk \in BOOLEAN : ResponseRotate(c, status, writeOk)
    \/ AudioEvent
    \/ Cancel
    \/ \E l \in Listeners : Subscribe(l)
    \/ \E l \in Listeners : Unsubscribe(l)
    \/ \E pool \in Pools : AdminSave(pool)

Spec == Init /\ [][Next]_vars

\* Overlapping speak() calls of one client, while the provider accepts the current key
\* (no attempt ends in a rotation) and the key list is not saved anew.
NextConc ==
    \/ \E c \in Calls, text \in Texts : Speak(c, text)
    \/ Attempt
    \/ AudioEvent
    \/ Cancel
    \/ \E l \in Listeners : Subscribe(l)
    \/ \E l \in Listeners : Unsubscribe(l)

SpecConc == Init /\ [][NextConc]_vars

\* One client alone: one speak() call at a time and no other writer of the key list.
NextClient ==
    \/ \E c \in Calls, text \in Texts : SpeakAlone(c, text)
    \/ Attempt
    \/ \E c \in Calls, status \in Statuses, writeOk \in BOOLEAN : ResponseRotate(c, status, writeOk)
    \/ AudioEvent
    \/ Cancel
    \/ \E l \in Listeners : Subscribe(l)
    \/ \E l \in Listeners : Unsubscribe(l)

SpecClient == Init /\ [][NextClient]_vars

\* The ranker alone, over every corpus and interaction snapshot within the bounds.
InitRank == RankerInputs /\ InitNarration /\ config = Missing /\ CacheIdle /\ HostIdle

\* Math.random() is called once per unwatched video, or else by the shuffle.
RandomDraws ==
    IF hasHistory /\ HasUnwatched(allVideos, watchHistory, dislikedIds)
    THEN {d \in [1..MaxCorpus -> Draws] :
             \A i \in 1..MaxCorpus :
                 i > Len(UnwatchedPool(allVideos, watchHistory, dislikedIds)) => d[i] = 0}
    ELSE {NoDraws}

RandomOrders ==
    IF Raises(allVideos, hasHistory) \/ HasUnwatched(allVideos, watchHistory, dislikedIds)
    THEN {[i \in 1..MaxCorpus |-> i]}
    ELSE Orders(MaxCorpus)

NextRank == \E draws \in RandomDraws, r \in RandomOrders : Rank(draws, r)

SpecRank == InitRank /\ [][NextRank]_vars

\* The prefetch cache alone: buffer calls that may overlap, over a network and a store
\* that may fail at every step, and lookups at any time.
InitCache == CacheIdle /\ RankerIdle /\ InitNarration /\ config = Missing /\ HostIdle

NextCache ==
    \/ \E b \in Bufs, url \in Urls : BufferVideoChunk(b, url)
    \/ \E b \in Bufs, url \in Urls : BufferImage(b, url)
    \/ \E b \in Bufs, ok \in BOOLEAN : CacheOpened(b, ok)
    \/ \E b \in Bufs, ok \in BOOLEAN : CacheMatched(b, ok)
    \/ \E b \in Bufs, status \in FetchStatuses, body \in Bodies, blobOk \in BOOLEAN :
          Fetched(b, status, body, blobOk)
    \/ \E b \in Bufs, ok \in BOOLEAN : CachePut(b, ok)
    \/ \E url \in Urls, readOk \in BOOLEAN : GetVideoSrcFromCache(url, readOk)

SpecCache == InitCache /\ [][NextCache]_vars

\* The key ordering alone: one optimizeKeyOrder call at a time over any key list, the
\* provider answering each probe in any way, while the administrator saves key lists.
NextKeys ==
    \/ \E keys \in KeyLists : OptimizeKeyOrder(keys)
    \/ \E j \in 1..MaxKeys, reply \in Replies : ProbeReturns(j, reply)
    \/ \E pool \in Pools : AdminSave(pool)

SpecKeys == Init /\ [][NextKeys]_vars

\* The initial buffering alone, called with any corpus within the bounds.
InitSeed == Init /\ config = Missing

NextSeed == \E videos \in SeedCorpora : InitSmartBuffering(videos)

SpecSeed == InitSeed /\ [][NextSeed]_vars

\* The viewer's interactions: likes, dislikes and restores of any video, recorded
\* interests and merges of any remote profile, in any order.
InitApp == Init /\ config = Missing

NextApp ==
    \/ \E id \in AppIds : HandleLikeToggle(id)
    \/ \E id \in AppIds : HandleDislike(id)
    \/ \E id \in AppIds : OnRestore(id)
    \/ \E interest \in Categories, storeOk \in BOOLEAN : SaveInterest(interest, storeOk)
    \/ \E remote \in RemoteProfiles, storeOk \in BOOLEAN : GetUserProfile(remote, storeOk)

SpecApp == InitApp /\ [][NextApp]_vars

\* The watch histories read back from storage at start (lines 47-55): any list the
\* players have left there, with at most one entry per id.
StoredHistories ==
    {h \in SeqsUpTo([id : AppIds, progress : ProgressValues], MaxHistory) :
        \A i, j \in DOMAIN h : i # j => h[i].id # h[j].id}

\* The players report the progress of any video, in any order, on top of a stored
\* history.
InitHistory ==
    /\ InitNarration /\ config = Missing /\ CacheIdle /\ HostIdle
    /\ allVideos = << >>
    /\ watchHistory \in StoredHistories
    /\ dislikedIds = {}
    /\ localInterests = << >>
    /\ feed = << >>
    /\ ranked = FALSE
    /\ hasHistory = TRUE
    /\ hasDisliked = TRUE
    /\ raised = FALSE
    /\ randoms = NoDraws

NextHistory == \E id \in AppIds, progress \in ProgressValues : OnProgress(id, progress)

SpecHistory == InitHistory /\ [][NextHistory]_vars

\* Two clients of one persisted pool: each call slot is the speak() call of one client,
\* the calls overlap, the provider answers each request in any way and nobody saves the
\* key list anew.  The events of the audio elements, which touch neither the calls nor
\* the pool, are left out.
NextPool ==
    \/ \E c \in Calls, text \in Texts : Speak(c, text)
    \/ Attempt
    \/ \E c \in Calls, status \in Statuses, writeOk \in BOOLEAN : ResponseRotate(c, status, writeOk)

SpecPool == Init /\ [][NextPool]_vars

----------------------------------------------------------------------------
(* Sessions of the playback state machine *)

\* Calls whose session is Requesting: the narration request is being prepared or awaited.
Requesting == {c \in Calls : Active(c)}

\* Audio elements whose session is Playing: play() was called and the audio has been
\* neither stopped nor ended.
Playing == {a \in AudioIds : audio[a] \in {"starting", "playing"}}

\* Audio elements that sound.
Sounding == {a \in AudioIds : audio[a] = "playing"}

Subscribed == {l \in Listeners : audioListeners[l] # "off"}

\* Every subscribed listener has received false last, in the state after the step.
AllToldFalse == \A l \in Listeners : audioListeners'[l] \in {"off", "false"}

----------------------------------------------------------------------------
(* Claims *)

\* C1: single-flight narration.  In every reachable state at most one session is
\* Requesting or Playing, so that never two audio handles play at once, also when a
\* second speak() is issued while the request of the first is in flight.
C1_SingleFlight ==
    /\ Cardinality(Requesting) + Cardinality(Playing) <= 1
    /\ Cardinality(Sounding) <= 1

\* C2: cancellation is total.  From a cancel() on, as long as no speak() is issued, no
\* session reaches Playing and no subscriber is notified true.
C2_CancelTotal ==
    [][(quiet /\ quiet') =>
          /\ \A a \in AudioIds : audio'[a] \in {"starting", "playing"}
                                    => audio[a] \in {"starting", "playing"}
          /\ \A l \in Listeners : audioListeners'[l] = "true"
                                    => audioListeners[l] = "true"]_vars

\* C3: cancel() is synchronous.  A cancel() invoked while a session is Playing leaves,
\* in the state it returns in, no audio playing, no active handle, and false as the
\* last value of every subscribed listener.
C3_CancelSynchronous ==
    [][(Cancel /\ Playing # {}) =>
          /\ \A a \in AudioIds : audio'[a] \notin {"starting", "playing"}
          /\ currentAudio' = 0
          /\ AllToldFalse]_vars

----------------------------------------------------------------------------
(* Steps of a call, for the claims about one attempt *)

\* The narration request of call c settles with the given status, however the client
\* treats it.
Settles(c, status) ==
    \/ \E bodyOk \in BOOLEAN : ResponseOk(c, status, bodyOk)
    \/ \E writeOk \in BOOLEAN : ResponseRotate(c, status, writeOk)
    \/ ResponseFail(c, status)

\* Call c returns to its caller in this step.
Returns(c) == Active(c) /\ calls'[c].pc = "idle"

\* Call c issues a narration request in this step.
Requests(c) == calls[c].pc # "fetch" /\ calls'[c].pc = "fetch"

AuthOrQuotaStatuses == {401, 402, 429}

\* Failure statuses that say nothing about the key, and 0 for a transport error.
TransientStatuses == {s \in Statuses : (s < 200 \/ s > 299) /\ s \notin AuthOrQuotaStatuses}

\* C4: bounded retry.  One speak() call issues at most 1 + 3 narration requests whatever
\* the statuses; any outcome of the last of them makes the call return, and when that
\* outcome is one more auth/quota status the subscribers are notified false.
C4_BoundedRetry ==
    /\ [](\A c \in Calls : calls[c].reqs <= 1 + 3)
    /\ [][\A c \in Calls, status \in Statuses :
             (calls[c].reqs = 1 + 3 /\ Settles(c, status)) =>
                 /\ Returns(c)
                 /\ status \in AuthOrQuotaStatuses => AllToldFalse]_vars

C4_FourthRequest == \E c \in Calls : calls[c].pc = "fetch" /\ calls[c].reqs = 1 + 3

\* The key after the one the attempt before used, in the persisted list.
NextKeyAfterPrev(c) ==
    KeyAt(config.keys, (calls[c].prev + 1) % Len(config.keys))

\* In the state after the step a new audio element is the active handle and has been
\* started.
PlaybackBegins ==
    /\ currentAudio' # 0
    /\ audio'[currentAudio'] = "starting"
    /\ audio[currentAudio'] = "none"

C6_ExhaustionSilent ==
    [][\A c \in Calls, status \in AuthOrQuotaStatuses :
          (calls[c].retry = 3 /\ Settles(c, status)) =>
              /\ Returns(c)
              /\ lastOut' = "exhausted"
              /\ \A d \in Calls : calls'[d].pc = "idle"
              /\ \A a \in AudioIds : audio'[a] \notin {"starting", "playing"}
              /\ AllToldFalse]_vars

C6_Exhausted == lastOut = "exhausted" /\ Subscribed # {} /\ Requesting = {}

\* The position getActiveKeyData resolves for the persisted document.
Resolved == GetActiveKeyData(config, TRUE)

HasKeys == config.exists /\ Len(config.keys) > 0

\* C7 as stated: for every non-empty pool and every persisted index reachable through
\* rotations and admin saves, the key of an attempt is keys[currentIndex mod length], at
\* a position within 0..length-1, and is never undefined.
C7_WrapsModulo ==
    HasKeys =>
        /\ Resolved.index = config.index % Len(config.keys)
        /\ Resolved.index \in 0 .. Len(config.keys) - 1
        /\ Resolved.key = config.keys[(config.index % Len(config.keys)) + 1]
        /\ Resolved.key # 0

\* C7, amended: the key of an attempt is keys[currentIndex] when currentIndex is less
\* than the length and keys[0] otherwise, which is keys[currentIndex mod length] as long
\* as currentIndex is at most the length; the position is within 0..length-1 and the key
\* is never undefined, for the document and for every attempt under way.
C7_WrapsToStart ==
    /\ HasKeys =>
        /\ Resolved.index = (IF config.index < Len(config.keys) THEN config.index ELSE 0)
        /\ config.index <= Len(config.keys) =>
              Resolved.index = config.index % Len(config.keys)
        /\ Resolved.index \in 0 .. Len(config.keys) - 1
        /\ Resolved.key = config.keys[Resolved.index + 1]
        /\ Resolved.key # 0
    /\ \A c \in Calls : calls[c].pc = "fetch" => calls[c].key # 0

C7_WrappedAttempt ==
    /\ HasKeys /\ config.index = Len(config.keys)
    /\ \E c \in Calls : calls[c].pc = "fetch" /\ calls[c].retry > 0 /\ calls[c].index = 0

\* C8: transient failures do not rotate.  When an attempt fails with a status other than
\* 401, 402, 429, or with a transport error, the persisted index and key list stay as
\* they are, the call returns without another attempt, and the subscribers are notified
\* false.
C8_TransientNoRotation ==
    [][\A c \in Calls, status \in TransientStatuses :
          Settles(c, status) =>
              /\ config' = config
              /\ Returns(c)
              /\ AllToldFalse]_vars

C8_TransientFailed == lastOut = "failed" /\ Subscribed # {} /\ config.exists /\ config.index > 0

\* C9: empty pool.  When the key list is empty or the config is missing or unreadable,
\* speak() issues no narration request, writes nothing to the config, notifies the
\* subscribers false and returns.
C9_EmptyPool ==
    [][\A c \in Calls, readOk \in BOOLEAN :
          (GetKey(c, readOk) /\ (~readOk \/ ~config.exists \/ config.keys = << >>)) =>
              /\ ~Requests(c)
              /\ Returns(c)
              /\ config' = config
              /\ AllToldFalse]_vars

C9_NoKey == lastOut = "nokey" /\ Subscribed # {}

----------------------------------------------------------------------------
(* Claims about the feed ranker *)

CorpusIds == {allVideos[i].id : i \in DOMAIN allVideos}

\* C10: for every corpus, also one that repeats an id, and every interaction state, the
\* list rank returns has no two items with the same id, and every id in it is an id of
\* the corpus.
C10_UniqueSubset ==
    ranked =>
        /\ \A i, j \in DOMAIN feed : i # j => feed[i].id # feed[j].id
        /\ \A i \in DOMAIN feed : feed[i].id \in CorpusIds

C10_RankedRepeatingCorpus ==
    /\ ranked
    /\ \E i, j \in DOMAIN allVideos : i < j /\ allVideos[i].id = allVideos[j].id
    /\ Len(feed) = 2

\* The interaction state the ranker reads: an absent dislike list reads as empty.
Disliked == DislikedSet(hasDisliked, dislikedIds)

\* C11: safety net.  For every interaction state that has a watch history, rank returns
\* an empty list if and only if the corpus is empty; so the output for a non-empty
\* corpus is non-empty, also when every corpus id is disliked.
C11_SafetyNet == (ranked /\ hasHistory) => (feed = << >> <=> allVideos = << >>)

C11_AllDisliked ==
    /\ ranked /\ hasHistory /\ hasDisliked
    /\ allVideos # << >>
    /\ CorpusIds \subseteq dislikedIds
    /\ feed # << >>

\* Number of times x occurs in list.
Count(list, x) == Cardinality({i \in DOMAIN list : list[i] = x})

\* Same items with the same multiplicity, in any order.
IsPermutation(a, b) ==
    /\ Len(a) = Len(b)
    /\ \A i \in DOMAIN b : Count(a, b[i]) = Count(b, b[i])

Ids(list) == {list[i].id : i \in DOMAIN list}

UniqueIds(list) == \A i, j \in DOMAIN list : i # j => list[i].id # list[j].id

\* An id with a recorded progress strictly above 0.8.
AboveThreshold(id) ==
    \E h \in DOMAIN watchHistory : watchHistory[h].id = id /\ watchHistory[h].progress > 80

\* Every id of the corpus is watched and none is disliked.
AllWatchedNoneDisliked ==
    /\ hasHistory
    /\ \A i \in DOMAIN allVideos :
          AboveThreshold(allVideos[i].id) /\ allVideos[i].id \notin Disliked

\* C12 as stated: recycle path.  If every id of the corpus has progress > 0.8 and none
\* is disliked, the output is a permutation of the corpus, multiplicities included.
C12_RecyclePermutation ==
    (ranked /\ AllWatchedNoneDisliked) => IsPermutation(feed, allVideos)

\* C12 amended: on the recycle path the output holds items of the corpus only, exactly
\* one for every id of the corpus; it is a permutation of the corpus when the corpus
\* repeats no id.
C12_RecycleOnePerId ==
    (ranked /\ AllWatchedNoneDisliked) =>
        /\ \A k \in DOMAIN feed : \E i \in DOMAIN allVideos : feed[k] = allVideos[i]
        /\ Ids(feed) = CorpusIds
        /\ UniqueIds(feed)
        /\ UniqueIds(allVideos) => IsPermutation(feed, allVideos)

C12_Recycled ==
    /\ ranked /\ AllWatchedNoneDisliked
    /\ Len(allVideos) = 2 /\ UniqueIds(allVideos)
    /\ feed = <<allVideos[2], allVideos[1]>>

\* The corpus items that are neither watched nor disliked, in corpus order.
Unwatched ==
    SelectSeq(allVideos, LAMBDA v : ~AboveThreshold(v.id) /\ v.id \notin Disliked)

\* Standard mode: the snapshot has a history and the corpus an unwatched item.
StandardMode == hasHistory /\ Unwatched # << >>

\* The score the i-th unwatched item gets under the given random draws.
ScoreAt(i, draws) == Score(Unwatched[i], localInterests, draws[i])

\* The highest score among the unwatched items that share the id of v.
TopScore(v, draws) ==
    CHOOSE m \in {ScoreAt(i, draws) : i \in {j \in DOMAIN Unwatched : Unwatched[j].id = v.id}} :
        \A i \in DOMAIN Unwatched : Unwatched[i].id = v.id => ScoreAt(i, draws) <= m

\* The list f is in order of non-increasing score, and every item of f is an unwatched
\* item that has the score it stands for.
OrderedByScore(f, draws) ==
    /\ \A k \in DOMAIN f :
          \E i \in DOMAIN Unwatched : Unwatched[i] = f[k] /\ ScoreAt(i, draws) = TopScore(f[k], draws)
    /\ \A k \in 1..(Len(f) - 1) : TopScore(f[k], draws) >= TopScore(f[k + 1], draws)

\* C13 as stated: standard mode.  When the corpus holds an item neither watched nor
\* disliked, the output is exactly the unwatched, non-disliked items, in order of
\* non-increasing score.
C13_StandardExact ==
    (ranked /\ StandardMode) =>
        /\ IsPermutation(feed, Unwatched)
        /\ OrderedByScore(feed, randoms)

\* C13 amended: in standard mode the output holds unwatched, non-disliked items only
\* (no watched and no disliked item), exactly one for every unwatched id, namely the
\* highest scored of the items sharing that id, in order of non-increasing score; it
\* is exactly the unwatched, non-disliked items when the corpus repeats no id.
C13_StandardOnePerId ==
    (ranked /\ StandardMode) =>
        /\ Ids(feed) = Ids(Unwatched)
        /\ UniqueIds(feed)
        /\ UniqueIds(allVideos) => IsPermutation(feed, Unwatched)
        /\ OrderedByScore(feed, randoms)

\* A ranking in standard mode that left out a watched item and put an item of the
\* user's interests before a trending one that stands earlier in the corpus.
C13_RankedStandard ==
    /\ ranked /\ StandardMode
    /\ Len(allVideos) = 3 /\ Len(feed) = 2
    /\ localInterests = <<"a">>
    /\ \E i, j \in DOMAIN allVideos :
          i < j /\ feed = <<allVideos[j], allVideos[i]>> /\ allVideos[j].category = "a"

ResultsForEmptyHistory ==
    {GenerateVideoFeed(allVideos, << >>, Disliked, localInterests, draws, r) :
        draws \in [1..MaxCorpus -> Draws], r \in Orders(MaxCorpus)}

\* C15: rank is total over malformed interaction state.  When the snapshot lacks
\* watchHistory or dislikedIds, rank does not raise and returns a result it may return
\* for an empty watch history and an empty dislike set.
C15_MalformedAsEmpty ==
    (ranked /\ (~hasHistory \/ ~hasDisliked)) =>
        /\ ~raised
        /\ (~hasHistory /\ ~hasDisliked) => feed \in ResultsForEmptyHistory

----------------------------------------------------------------------------
(* Claims about the prefetch cache *)

\* An absolute http or https URL.
IsHttpUrl(url) == url # << >> /\ url[1] \in {"http:", "https:"}

\* Call b has a fetch of the request URL k under way for the bucket, or its response
\* on the way into the bucket.
InFlight(b, bucket, k) ==
    /\ bufs[b].pc \in {"fetch", "put"}
    /\ bufs[b].bucket = bucket
    /\ RequestUrl(bufs[b].url) = k

\* Call b issues its network fetch in this step.
IssuesFetch(b) == bufs[b].pc = "match" /\ bufs'[b].pc = "fetch"

\* C16: idempotent buffering.  Calls for the same valid URL, one after the other or
\* overlapping, fetch it at most once: a fetch is issued only while the bucket has no
\* entry for the URL and no other call has a fetch of it under way.
C16_IdempotentBuffering ==
    [][\A b \in Bufs :
          IssuesFetch(b) =>
              /\ store[bufs[b].bucket][RequestUrl(bufs[b].url)] = 0
              /\ \A c \in Bufs \ {b} : ~InFlight(c, bufs[b].bucket, RequestUrl(bufs[b].url))]_vars

\* C17: write-once entries.  Once a bucket holds an entry for a URL, no step of any
\* buffer call changes it.
C17_WriteOnce ==
    [][\A c \in Buckets, k \in Keys : store[c][k] # 0 => store'[c][k] = store[c][k]]_vars

FailingStep(b) ==
    \/ CacheOpened(b, FALSE)
    \/ CacheMatched(b, FALSE)
    \/ \E status \in FetchStatuses, body \in Bodies, blobOk \in BOOLEAN :
          /\ Fetched(b, status, body, blobOk)
          /\ status = 0 \/ ~Storable(status) \/ ~blobOk \/ ~PutAccepts(bufs[b].bucket, status)
    \/ CachePut(b, FALSE)

\* C19: prefetch failures are swallowed.  No buffer call ever raises; whichever step
\* fails (opening the bucket, the lookup, the fetch, a non-success status, reading the
\* body, the store write), the call completes in that step and both buckets are as
\* they were.
C19_FailuresSwallowed ==
    /\ [](\A b \in Bufs : bufs[b].pc # "raised")
    /\ [][\A b \in Bufs : FailingStep(b) => (bufs'[b] = IdleBuf /\ store' = store)]_vars

\* A call failed and was swallowed while one bucket held an entry and the other none.
C19_Swallowed ==
    /\ lastEnd = "swallowed"
    /\ \E c \in Buckets, k \in Keys : store[c][k] # 0
    /\ \E c \in Buckets : \A k \in Keys : store[c][k] = 0

\* C20: non-http inputs are no-ops.  No buffer call for an empty, missing or
\* non-http(s) URL gets as far as a fetch or a write, and resolveCachedMediaSrc of such
\* a URL returns null.
C20_NonHttpNoOp ==
    /\ \A b \in Bufs : bufs[b].pc \in {"fetch", "put"} => IsHttpUrl(bufs[b].url)
    /\ ~IsHttpUrl(resolved.url) => resolved.handle = 0

----------------------------------------------------------------------------
(* Claims about the quota probes and the key ordering *)

\* The probes an optimizeKeyOrder call has completed so far.
Completed == {sorter.probed[n] : n \in 1..Len(sorter.probed)}

ExampleStats ==
    <<[key |-> 1, used |-> 0, limit |-> 10, remaining |-> 10, status |-> "active"],
      [key |-> 2, used |-> 0, limit |-> 100, remaining |-> 100, status |-> "active"],
      ErrorStat(3)>>

\* C22: in the list optimizeKeyOrder returns every key probed active precedes every key
\* probed empty or error, and the remaining quota of the active keys is non-increasing;
\* the stats a (active, 10), b (active, 100), c (error) are ordered b, a, c.
C22_ActiveFirstByRemaining ==
    /\ sorter.pc = "done" =>
          /\ sorter.result = KeysOf(sorter.stats)
          /\ \A p \in Completed : Count(sorter.stats, p.stat) = Count([n \in 1..Len(sorter.probed) |-> sorter.probed[n].stat], p.stat)
          /\ \A m, n \in 1..Len(sorter.stats) :
                m < n =>
                   /\ sorter.stats[n].status = "active" => sorter.stats[m].status = "active"
                   /\ sorter.stats[n].status = "active" =>
                         sorter.stats[m].remaining >= sorter.stats[n].remaining
    /\ KeysOf(SortStats(ExampleStats)) = <<2, 1, 3>>

\* A call has returned a list in which the sort moved an active key in front of a
\* failed one and a larger quota in front of a smaller one.
C22_Reordered ==
    /\ sorter.pc = "done"
    /\ Len(sorter.probed) = 3
    /\ sorter.probed[1].stat.status = "error"
    /\ sorter.probed[2].stat.status = "active"
    /\ sorter.probed[3].stat.status = "active"
    /\ sorter.probed[3].stat.remaining > sorter.probed[2].stat.remaining
    /\ sorter.result = <<sorter.keys[3], sorter.keys[2], sorter.keys[1]>>

\* C23: during an optimizeKeyOrder call at most one probe is in flight, and the probe of
\* a key is in flight only when the probe of every earlier key has returned.
C23_SequentialProbes ==
    /\ Cardinality(probes) <= 1
    /\ \A j \in probes :
          \A k \in Probed(sorter.keys, 1) :
             k < j => \E p \in Completed : p.pos = k

\* The probe of a later key is in flight after the probe of an earlier key returned.
C23_SecondProbe ==
    /\ sorter.pc = "probing"
    /\ \E j \in probes : \E p \in Completed : p.pos < j

\* A step of the optimizeKeyOrder call.
ReorderStep == sorter' # sorter \/ probes' # probes

\* C24: no step of optimizeKeyOrder writes the persisted configuration, neither its
\* index nor its key list.
C24_ReorderKeepsConfig == [][ReorderStep => config' = config]_vars

\* A call has returned an order that differs from the persisted key list.
C24_OrderNotPersisted ==
    /\ sorter.pc = "done"
    /\ config.exists
    /\ config.keys = <<1, 2>>
    /\ sorter.result = <<2, 1>>

----------------------------------------------------------------------------
(* Claims about the initial buffering *)

\* C25: initSmartBuffering selects at most 8 videos, no id twice even when the corpus
\* repeats an id, and fires bufferVideoChunk and bufferImage once per selected video:
\* no two calls of the same function are made for one id.
C25_SeedOncePerId ==
    /\ Len(SeedQueue(seedCorpus)) <= TrendingSeed + NewestSeed
    /\ UniqueIds(SeedQueue(seedCorpus))
    /\ \A m, n \in 1..Len(seedFired) :
          (m # n /\ seedFired[m].fn = seedFired[n].fn) => seedFired[m].id # seedFired[n].id

----------------------------------------------------------------------------
(* Claims about the interactions and the interest profile *)

\* C26: after any sequence of like-toggle, dislike and restore operations from disjoint
\* sets, no id is both liked and disliked.
C26_LikedDislikedDisjoint == likedIds \cap dislikedIds = {}

\* The handlers have left one video liked and another disliked.
C26_LikedAfterDislike == likedIds = {1} /\ dislikedIds = {2}

\* C27: no step removes a category from the local interest profile, and after
\* saveInterest of a non-empty category the category is in the profile.
C27_ProfileGrows ==
    [][/\ \A n \in 1..Len(localInterests) : Includes(localInterests', localInterests[n])
       /\ \A c \in Categories \ {""} :
             (\E storeOk \in BOOLEAN : SaveInterest(c, storeOk)) => Includes(localInterests', c)]_vars

\* The profile holds a recorded category followed by merged remote ones, and the last
\* write of the stored copy failed.
C27_RecordedThenMerged ==
    /\ localInterests = <<"c", "b", "a">>
    /\ storedInterests = <<"c">>

----------------------------------------------------------------------------
(* Claims about the playback notifications *)

\* C28: a subscriber is told true only in the step in which an audio starts to play, and
\* an audio is started only by a narration response with a 2xx status; when the playing
\* audio is paused or ends every subscriber is told false, and when it ends the module's
\* handle is cleared as well.
C28_NotificationsTrackSession ==
    [][/\ (\E l \in Listeners : audioListeners'[l] = "true" /\ audioListeners[l] # "true")
             => \E a \in AudioIds : audio[a] = "starting" /\ audio'[a] = "playing"
       /\ (\E a \in AudioIds : audio'[a] = "starting" /\ audio[a] # "starting")
             => \E c \in Calls, status \in Statuses :
                   status >= 200 /\ status <= 299 /\ ResponseOk(c, status, TRUE)
       /\ (\E a \in AudioIds : audio[a] = "playing" /\ audio'[a] = "pausedPlay")
             => AllToldFalse
       /\ (\E a \in AudioIds : audio[a] = "playing" /\ audio'[a] = "none")
             => AllToldFalse /\ currentAudio' = 0]_vars

\* A narration was started, nobody cancelled it and no audio is left: it played to its
\* end, and the subscriber, told true on its start, has received false.
C28_PlayedToEnd ==
    /\ lastOut = "started"
    /\ ~quiet
    /\ currentAudio = 0
    /\ \A a \in AudioIds : audio[a] = "none"
    /\ \A c \in Calls : ~Active(c)
    /\ \E l \in Listeners : audioListeners[l] = "false"

----------------------------------------------------------------------------
(* Claims about two clients of one pool *)

\* The keys at the positions the persisted index has moved past.
PassedKeys ==
    IF config.exists
    THEN {config.keys[p] : p \in {q \in 1..Len(config.keys) : q <= config.index}}
    ELSE {}

----------------------------------------------------------------------------
(* Claims about the purity of the ranker *)

SecondRotation(c, d) ==
    /\ c # d
    /\ calls[c].pc = "fetch"
    /\ calls'[c].prev = calls[c].index
    /\ calls'[c].writes = calls[c].writes + 1
    /\ calls[d].prev = calls[c].index
    /\ calls[d].writes > 0
    /\ config.index = calls[c].index + 1

----------------------------------------------------------------------------
(* Claims about rotation and retry within one call *)

\* The rotation write of call c is accepted by the store in this step.
RotationWrite(c) ==
    /\ calls[c].pc = "fetch"
    /\ config.exists
    /\ \E status \in AuthOrQuotaStatuses : ResponseRotate(c, status, TRUE)

\* C31: a speak() call advances the persisted index only when another attempt of the
\* call follows, so it never writes the index a fourth time.
C31_RotationThenRetry ==
    [][\A c \in Calls :
          RotationWrite(c) => /\ calls'[c].pc = "getKey"
                              /\ calls[c].writes < MaxRetries]_vars

\* C32: every rotation write leaves the persisted index one position after the one it
\* held at the moment of the write (the position getActiveKeyData resolves it to), so
\* no write sets it back, also when the calls of two clients interleave.
C32_RotationFromCurrent ==
    [][\A c \in Calls :
          RotationWrite(c) =>
             /\ config'.index = ResolveIndex(config.index, Len(config.keys)) + 1
             /\ config.index < Len(config.keys) => config'.index > config.index]_vars

----------------------------------------------------------------------------
(* Claims about the dominance of the boosts *)

\* The category of v is in the interest profile.
Interesting(v) == \E i \in DOMAIN localInterests : localInterests[i] = v.category

\* C33: in standard mode, whatever the random draws, no item outside the interest
\* profile stands before an item inside it, and among items that agree on that no
\* non-trending item stands before a trending one.
C33_BoostsDominate ==
    (ranked /\ ~raised /\ StandardMode) =>
        \A m, n \in DOMAIN feed :
           m < n =>
              /\ Interesting(feed[n]) => Interesting(feed[m])
              /\ (Interesting(feed[m]) <=> Interesting(feed[n])) =>
                    (feed[n].is_trending => feed[m].is_trending)

\* An item of the profile that drew 0 stands before an item outside the profile that
\* drew 9 and comes first in the corpus.
C33_InterestBeatsDraw ==
    /\ ranked /\ ~raised /\ StandardMode
    /\ localInterests = <<"a">>
    /\ watchHistory = << >> /\ dislikedIds = {}
    /\ Len(allVideos) = 2
    /\ allVideos[1].category = "b" /\ ~allVideos[1].is_trending
    /\ allVideos[2].category = "a" /\ ~allVideos[2].is_trending
    /\ randoms[1] = 9 /\ randoms[2] = 0
    /\ feed = <<allVideos[2], allVideos[1]>>

----------------------------------------------------------------------------
(* Claims about texts with nothing to speak *)

\* A text that is empty or made of whitespace and stripped symbols only.
NothingToSpeak(text) == \A i \in DOMAIN text : text[i] \in {" ", "*"}

\* C34: speak() with nothing to speak stops the current playback and returns: the call
\* does not go on to read the config or to request a narration, and the persisted
\* config stays as it is.
C34_NothingToSpeak ==
    [][\A c \in Calls, text \in Texts :
          (NothingToSpeak(text) /\ Speak(c, text)) =>
              /\ calls'[c] = IdleCall
              /\ config' = config
              /\ currentAudio' = 0
              /\ currentAudio # 0 => /\ audio'[currentAudio] \notin {"starting", "playing"}
                                     /\ AllToldFalse]_vars

\* A speak() with nothing to speak has returned after it stopped a playing audio.
C34_StoppedAndReturned ==
    /\ lastOut = "notext"
    /\ ~quiet
    /\ currentAudio = 0
    /\ \E a \in AudioIds : audio[a] = "pausedPlay"

----------------------------------------------------------------------------
(* Claims about the release of audio resources *)

\* C35: the object URL of an audio is released when its session is back to idle, be it
\* by a natural end or by a stop: no idle audio element has an unrevoked URL.
C35_ReleasedWhenIdle == \A a \in urls : audio[a] # "none"

----------------------------------------------------------------------------
(* Claims about the list the host shows *)

\* applySmartRecommendations(videos, interactions), App.tsx lines 123-131, seen after
\* the call: the ranked list, or the raw videos when generateVideoFeed threw.
ApplySmartRecommendations ==
    IF allVideos = << >> THEN << >>
    ELSE IF raised THEN allVideos
    ELSE feed

\* The videos prop of the home view, App.tsx line 477.
HomeVideos == Filter(ApplySmartRecommendations, LAMBDA v : v.id \notin dislikedIds)

\* C36: after generateVideoFeed has returned for a non-empty corpus the list handed to
\* the home view is non-empty, also when every item of the corpus is disliked.
C36_HomeNeverEmpty ==
    (ranked /\ ~raised /\ hasDisliked /\ allVideos # << >>) => HomeVideos # << >>

----------------------------------------------------------------------------
(* Claims about the keys a reorder returns *)

\* C37: when optimizeKeyOrder has returned, its result holds exactly the keys it was
\* given, each as many times as in the input, short keys included.
C37_ReorderIsPermutation ==
    sorter.pc = "done" => IsPermutation(sorter.result, sorter.keys)

----------------------------------------------------------------------------
(* Claims about the watch history *)

\* The positions of the entries of id in the watch history.
EntriesOf(id) == {i \in DOMAIN watchHistory : watchHistory[i].id = id}

\* The positions of the reports of id.
ReportsOf(id) == {n \in DOMAIN reports : reports[n].id = id}

\* The progress of the report of id made last.
LastReported(id) ==
    LET last == CHOOSE n \in ReportsOf(id) : \A m \in ReportsOf(id) : m <= n
    IN  reports[last].progress

\* C38: starting from a history with at most one entry per id, after any sequence of
\* progress reports the history holds at most one entry per id, and the entry of an id
\* that was reported holds the progress reported last for it.
C38_HistoryIsMap ==
    \A id \in AppIds :
        /\ Cardinality(EntriesOf(id)) <= 1
        /\ ReportsOf(id) # {} =>
              /\ EntriesOf(id) # {}
              /\ \A i \in EntriesOf(id) : watchHistory[i].progress = LastReported(id)

\* An id of the stored history was reported twice with different progress, another id
\* in between, and the history holds both ids.
C38_ReportedAgain ==
    /\ Len(reports) = 3
    /\ reports[1].id = reports[3].id
    /\ reports[1].progress # reports[3].progress
    /\ reports[2].id # reports[1].id
    /\ Len(watchHistory) = 2

============================================================================
